---- MODULE Spec2Model ----
(***************************************************************************)
(* A model of the sundew honeypot core: the storage layer and its session  *)
(* aggregation (storage.py), the HTTP core and its catch-all handler       *)
(* (server.py), the MCP JSON-RPC trap (traps/mcp.py) and the persona       *)
(* engine's template cache (persona/engine.py).                            *)
(*                                                                         *)
(* Conventions.  Time is counted in whole seconds.  uuid4 ids are drawn    *)
(* from a counter.  Python's None is 0 for ids and "None" for strings.     *)
(* Scores are integers: a signal is in hundredths (0..100), a composite in *)
(* ten-thousandths (0..10000).  A URL path is the sequence of its          *)
(* components.                                                             *)
(***************************************************************************)
EXTENDS Integers, Sequences, FiniteSets, TLC

VARIABLES
    clock,      \* datetime.now(UTC), in seconds
    nticks,     \* how often the clock has been advanced
    sessions,   \* the sessions table: id -> row
    events,     \* the events table: id -> row
    evlog,      \* the JSON-Lines event log: the lines appended so far
    nextId,     \* the next uuid4
    held,       \* storage API callers: the Session objects they hold
    evobjs,     \* storage API callers: the RequestEvent objects they built
    last,       \* storage API callers: the last call and what it returned
    ncalls,     \* storage API callers: number of calls made
    analyst,    \* the analyst's MCP client: where classify_session is, the Session it holds
    persona,    \* the deployment's Persona
    mcpPc,      \* POST /mcp: position of the handler
    mcpBody,    \* POST /mcp: the request body
    mcpResp,    \* POST /mcp: the response
    engPc,      \* PersonaEngine: new, ready (initialize returned) or failed (it raised)
    templates,  \* PersonaEngine._templates, in insertion order
    cacheFile,  \* the template cache file under the data directory
    packFiles,  \* the persona pack files: the industry's own and the saas one
    engRun,     \* PersonaEngine: what the last initialize was given
    engResp,    \* the status of the last response rendered from the cache
    engServed,  \* the last request rendered from the cache and the template used
    traps,      \* SundewServer.config.traps
    reqs        \* the HTTP requests: what was sent, where the handler is, the response

dbVars == <<clock, nticks, sessions, events, evlog, nextId>>
apiVars == <<held, evobjs, last, ncalls>>
mcpVars == <<mcpPc, mcpBody, mcpResp>>
engVars == <<engPc, templates, cacheFile, packFiles, engRun, engResp, engServed>>

srvVars == <<traps, reqs>>

vars == <<dbVars, apiVars, analyst, persona, mcpVars, engVars, srvVars>>

(***************************************************************************)
(* Bounds of the model.                                                    *)
(***************************************************************************)
MaxTicks == 2
MaxCalls == 3
MaxServerTicks == 1

Advances == {1, 3599, 3600}
IPs == {"203.0.113.5", "198.51.100.7"}
NoId == 0
NoHandle == [id |-> NoId]
Handles == {"h1", "h2"}
Reqs == {"r1", "r2"}

(***************************************************************************)
(* JSON values, tagged by their type.                                      *)
(***************************************************************************)
JAbsent == [t |-> "absent"]
JNull == [t |-> "null"]
JNum == [t |-> "num"]
JNaN == [t |-> "nan"]
JTrue == [t |-> "bool"]
JArr == [t |-> "arr"]
JStr(tokens) == [t |-> "str", v |-> tokens]
JMalformed == [t |-> "malformed"]
\* {}: an object with no members
JEmptyObj == [t |-> "obj"]

(***************************************************************************)
(* models.py                                                               *)
(***************************************************************************)
UNKNOWN == "unknown"
HUMAN == "human"
AUTOMATED == "automated"
AI_ASSISTED == "ai_assisted"
AI_AGENT == "ai_agent"

\* FingerprintScores(): every field defaults to 0.0
DefaultScores ==
    [timing_regularity |-> 0, header_anomaly |-> 0, path_traversal |-> 0,
     tool_calling_pattern |-> 0, credential_stuffing |-> 0, user_agent_score |-> 0,
     composite |-> 0]

\* Session(source_ip=ip): id is a fresh uuid, first_seen and last_seen are now
\* (mutant) a new session already counts one request
NewSession_counted(id, ip, now) ==
    [id |-> id, source_ip |-> ip, first_seen |-> now, last_seen |-> now,
     request_count |-> 1, request_ids |-> <<>>, classification |-> UNKNOWN,
     fingerprint_scores |-> DefaultScores, endpoints_hit |-> <<>>,
     trap_types_triggered |-> <<>>, notes |-> "None"]

NewSession(id, ip, now) ==
    [id |-> id, source_ip |-> ip, first_seen |-> now, last_seen |-> now,
     request_count |-> 0, request_ids |-> <<>>, classification |-> UNKNOWN,
     fingerprint_scores |-> DefaultScores, endpoints_hit |-> <<>>,
     trap_types_triggered |-> <<>>, notes |-> "None"]

\* RequestEvent.response_status is None: no status recorded
NoStatus == -1

\* RequestEvent(source_ip=..., method=..., path=...): id fresh, timestamp now
NewEvent(id, ip, method, path, trap_type, now) ==
    [id |-> id, timestamp |-> now, session_id |-> NoId, source_ip |-> ip,
     method |-> method, path |-> path, fingerprint_scores |-> DefaultScores,
     classification |-> UNKNOWN, trap_type |-> trap_type,
     body_json |-> JNull, response_status |-> NoStatus, notes |-> "None"]

(***************************************************************************)
(* storage.py                                                              *)
(***************************************************************************)
SESSION_TIMEOUT == 3600

Rows(tbl) == {tbl[k] : k \in DOMAIN tbl}

InSeq(x, s) == \E i \in 1..Len(s) : s[i] = x

\* a NULL column
SqlNull == [t |-> "sqlnull"]

\* json.dumps(v): a TEXT column holding the serialised value
json_dumps(v) == [t |-> "text", of |-> v]

\* json.loads(text)
json_loads(text) == text.of

\* Python's truth value of an optional dict: None and {} are false
Truthy(j) == j.t = "obj" /\ \E k \in DOMAIN j \ {"t"} : j[k].t # "absent"

\* save_event: the column values bound to the INSERT
EventRow(e) ==
    [e EXCEPT !.body_json = IF Truthy(e.body_json) THEN json_dumps(e.body_json) ELSE SqlNull]

\* save_session: the column values bound to the INSERT
SessionRow(s) ==
    [s EXCEPT !.request_ids = json_dumps(s.request_ids),
              !.endpoints_hit = json_dumps(s.endpoints_hit),
              !.trap_types_triggered = json_dumps(s.trap_types_triggered)]

\* _row_to_event
_row_to_event(row) ==
    [row EXCEPT !.body_json = IF row.body_json # SqlNull THEN json_loads(row.body_json)
                              ELSE JNull]

\* _row_to_session
_row_to_session(row) ==
    [row EXCEPT !.request_ids = json_loads(row.request_ids),
                !.endpoints_hit = json_loads(row.endpoints_hit),
                !.trap_types_triggered = json_loads(row.trap_types_triggered)]

\* INSERT OR REPLACE INTO sessions: append-or-replace by primary key
save_session(tbl, s) == (s.id :> SessionRow(s)) @@ tbl

\* (mutant) the insert does not replace the row already stored under the id
save_event_keep(tbl, e) == tbl @@ (e.id :> EventRow(e))

\* INSERT OR REPLACE INTO events
save_event(tbl, e) == (e.id :> EventRow(e)) @@ tbl

\* StorageConfig.log_file: the server opens the storage with a log path
LogFile == "events.jsonl"

\* _log_event: the log after the call.  oserror: open() or write() raises
\* OSError, which is caught and logged as a warning
_log_event(log_path, log, e, oserror) ==
    IF log_path = "None" \/ oserror THEN log ELSE Append(log, json_dumps(e))

\* get_event: the event stored under the id, if any
get_event(tbl, event_id) ==
    IF event_id \in DOMAIN tbl THEN {_row_to_event(tbl[event_id])} ELSE {}

\* get_session: the session stored under the id, if any
get_session(tbl, session_id) ==
    IF session_id \in DOMAIN tbl THEN {_row_to_session(tbl[session_id])} ELSE {}

\* the events and the sessions a reader finds in a table
AllEvents(tbl) == {_row_to_event(tbl[k]) : k \in DOMAIN tbl}
AllSessions(tbl) == {_row_to_session(tbl[k]) : k \in DOMAIN tbl}

\* SELECT * FROM sessions WHERE source_ip = ? ORDER BY last_seen DESC LIMIT 1:
\* the rows the query may return (rows with equal last_seen tie)
MostRecentSessions(tbl, ip) ==
    {s \in Rows(tbl) : /\ s.source_ip = ip
                       /\ \A t \in Rows(tbl) : t.source_ip = ip => t.last_seen <= s.last_seen}

\* (mutant) the idle threshold is inclusive
SessionIsActive_inclusive(s, now) == now - s.last_seen <= SESSION_TIMEOUT

\* the reuse test of get_or_create_session
SessionIsActive(s, now) == now - s.last_seen < SESSION_TIMEOUT

\* (mutant) a session is created without looking for an active one
get_or_create_session_nolookup(tbl, ip, now, newId) ==
    {[session |-> NewSession(newId, ip, now),
      tbl |-> save_session(tbl, NewSession(newId, ip, now)), created |-> TRUE]}

\* get_or_create_session: the possible results [session, tbl, created]
get_or_create_session(tbl, ip, now, newId) ==
    LET rows == MostRecentSessions(tbl, ip)
        fresh == NewSession(newId, ip, now)
        created == [session |-> fresh, tbl |-> save_session(tbl, fresh), created |-> TRUE]
    IN  IF rows = {}
        THEN {created}
        ELSE {IF SessionIsActive(row, now)
              THEN [session |-> _row_to_session(row), tbl |-> tbl, created |-> FALSE]
              ELSE created : row \in rows}

\* (mutant) the path and the trap type are appended without the membership test
update_session_with_event_nodedup(s, e) ==
    [s EXCEPT !.last_seen = e.timestamp,
              !.request_count = s.request_count + 1,
              !.request_ids = Append(s.request_ids, e.id),
              !.endpoints_hit = Append(s.endpoints_hit, e.path),
              !.trap_types_triggered =
                  IF e.trap_type # "None" /\ e.trap_type # ""
                  THEN Append(s.trap_types_triggered, e.trap_type)
                  ELSE s.trap_types_triggered]

\* update_session_with_event: the Session object after the update (it is
\* then saved by the caller below)
update_session_with_event(s, e) ==
    [s EXCEPT !.last_seen = e.timestamp,
              !.request_count = s.request_count + 1,
              !.request_ids = Append(s.request_ids, e.id),
              !.endpoints_hit = IF InSeq(e.path, s.endpoints_hit)
                                THEN s.endpoints_hit
                                ELSE Append(s.endpoints_hit, e.path),
              !.trap_types_triggered =
                  IF e.trap_type # "None" /\ e.trap_type # ""
                     /\ ~InSeq(e.trap_type, s.trap_types_triggered)
                  THEN Append(s.trap_types_triggered, e.trap_type)
                  ELSE s.trap_types_triggered]

(***************************************************************************)
(* Callers of the storage API (as tests/test_storage.py drives it).        *)
(***************************************************************************)
ApiPaths == {<<"api", "v1", "payments">>, <<"robots.txt">>}
ApiTrapTypes == {"None", "rest_api", "mcp"}

\* a persona as generate_persona draws it (generator.py)
ThePersona ==
    [industry |-> "saas", data_theme |-> "users", endpoint_prefix |-> <<"api", "v1">>,
     framework_fingerprint |-> "django/4.2", error_style |-> "rfc7807",
     response_latency_ms |-> 50, mcp_server_name |-> "data-api",
     mcp_tool_prefix |-> <<"user_">>, auth_scheme |-> "bearer"]

McpIdle ==
    /\ mcpPc = "idle"
    /\ mcpBody = [t |-> "absent"]
    /\ mcpResp = [status |-> 0]

\* no request rendered yet
NothingServed == [path |-> <<>>, method |-> "None", template |-> {}]

EngineIdle ==
    /\ engPc = "new"
    /\ templates = <<>>
    /\ cacheFile = [kind |-> "missing"]
    /\ packFiles = [own |-> [kind |-> "missing"], saas |-> [kind |-> "missing"]]
    /\ engRun = [provider |-> "none"]
    /\ engResp = 0
    /\ engServed = NothingServed

NoRequest == [pc |-> "idle"]

ServerIdle ==
    /\ traps = [ai_discovery |-> TRUE, rest_api |-> TRUE, mcp_server |-> TRUE]
    /\ reqs = [r \in Reqs |-> NoRequest]

\* classify_session has not been called
NoAnalyst == [pc |-> "idle"]

ApiIdle ==
    /\ held = [h \in Handles |-> NoHandle]
    /\ evobjs = <<>>
    /\ last = [op |-> "none"]
    /\ ncalls = 0
    /\ analyst = NoAnalyst

DbInit ==
    /\ clock = 0
    /\ nticks = 0
    /\ sessions = <<>>
    /\ events = <<>>
    /\ evlog = <<>>
    /\ nextId = 1

StorageInit ==
    /\ persona = ThePersona
    /\ McpIdle
    /\ EngineIdle
    /\ ServerIdle
    /\ DbInit
    /\ ApiIdle

Tick(d) ==
    /\ nticks < MaxTicks
    /\ clock' = clock + d
    /\ nticks' = nticks + 1
    /\ UNCHANGED <<sessions, events, evlog, nextId>>

\* (the addresses are named in the order of their first call)
ApiGetOrCreateSession(h, ip) ==
    /\ ncalls < MaxCalls
    /\ sessions = <<>> => ip = "203.0.113.5"
    /\ \E o \in get_or_create_session(sessions, ip, clock, nextId) :
          /\ sessions' = o.tbl
          /\ held' = [held EXCEPT ![h] = o.session]
          /\ nextId' = IF o.created THEN nextId + 1 ELSE nextId
          /\ last' = [op |-> "get_or_create_session", ip |-> ip, at |-> clock,
                      ret |-> o.session]
    /\ ncalls' = ncalls + 1
    /\ UNCHANGED <<clock, nticks, events, evlog, evobjs>>

ApiUpdateSessionWithEvent(h, path, trap_type) ==
    /\ ncalls < MaxCalls
    /\ held[h].id # NoId
    /\ LET e == [NewEvent(nextId, held[h].source_ip, "GET", path, trap_type, clock)
                   EXCEPT !.session_id = held[h].id]
           s == update_session_with_event(held[h], e)
       IN  /\ evobjs' = (e.id :> e) @@ evobjs
           /\ held' = [held EXCEPT ![h] = s]
           /\ sessions' = save_session(sessions, s)
           /\ last' = [op |-> "update_session_with_event", ip |-> s.source_ip,
                      at |-> clock, ret |-> s]
    /\ nextId' = nextId + 1
    /\ ncalls' = ncalls + 1
    /\ UNCHANGED <<clock, nticks, events, evlog>>

StorageFrame == UNCHANGED <<analyst, persona, mcpVars, engVars, srvVars>>

StorageNext ==
    \/ \E d \in Advances : Tick(d) /\ UNCHANGED apiVars /\ StorageFrame
    \/ \E h \in Handles, ip \in IPs : ApiGetOrCreateSession(h, ip) /\ StorageFrame
    \/ \E h \in Handles, p \in ApiPaths, t \in ApiTrapTypes :
          ApiUpdateSessionWithEvent(h, p, t) /\ StorageFrame

SpecStorage == StorageInit /\ [][StorageNext]_vars

(***************************************************************************)
(* The server and the analyst's MCP client (mcp_client.py) are two         *)
(* processes on one database: each storage call is one transaction, and    *)
(* the calls of the two processes interleave.  The server handles one      *)
(* request at a time (no await between its storage calls); handle "h1" is  *)
(* the Session object its handler holds.                                   *)
(***************************************************************************)
AnalystClassifications == {HUMAN, AI_AGENT}
AnalystNotes == {"None", "reviewed"}

\* _handle_request: session = self.storage.get_or_create_session(source_ip)
HandlerGetOrCreateSession(ip) ==
    /\ ncalls < MaxCalls
    /\ last.op \in {"none", "update_session_with_event"}
    /\ sessions = <<>> => ip = "203.0.113.5"
    /\ \E o \in get_or_create_session(sessions, ip, clock, nextId) :
          /\ sessions' = o.tbl
          /\ held' = [held EXCEPT !["h1"] = o.session]
          /\ nextId' = IF o.created THEN nextId + 1 ELSE nextId
          /\ last' = [op |-> "get_or_create_session", ip |-> ip, at |-> clock,
                      ret |-> o.session]
    /\ ncalls' = ncalls + 1
    /\ UNCHANGED <<clock, nticks, events, evlog, evobjs, analyst>>

\* _handle_request: event.session_id = session.id; self.storage.save_event(event)
HandlerSaveEvent(path) ==
    /\ last.op = "get_or_create_session"
    /\ LET e == [NewEvent(nextId, held["h1"].source_ip, "GET", path, "None", clock)
                   EXCEPT !.session_id = held["h1"].id]
       IN  /\ events' = save_event(events, e)
           /\ evlog' = _log_event(LogFile, evlog, e, FALSE)
           /\ last' = [op |-> "save_event", event |-> e]
    /\ nextId' = nextId + 1
    /\ UNCHANGED <<clock, nticks, sessions, held, evobjs, ncalls, analyst>>

\* _handle_request: self.storage.update_session_with_event(session, event)
HandlerUpdateSession ==
    /\ last.op = "save_event"
    /\ LET s == update_session_with_event(held["h1"], last.event)
       IN  /\ sessions' = save_session(sessions, s)
           /\ held' = [held EXCEPT !["h1"] = NoHandle]
           /\ evobjs' = (last.event.id :> last.event) @@ evobjs
           /\ last' = [op |-> "update_session_with_event", ip |-> s.source_ip,
                       at |-> clock, ret |-> s]
    /\ UNCHANGED <<clock, nticks, events, evlog, nextId, ncalls, analyst>>

\* _handle_classify_session: session = storage.get_session(session_id)
AnalystGetSession(session_id, classification, notes) ==
    /\ analyst.pc \in {"idle", "saved", "not found"}
    /\ analyst' = IF get_session(sessions, session_id) = {}
                  THEN [pc |-> "not found"]
                  ELSE [pc |-> "loaded", classification |-> classification,
                        notes |-> notes,
                        session |-> CHOOSE t \in get_session(sessions, session_id) : TRUE,
                        since |-> DOMAIN evobjs]
    /\ UNCHANGED <<dbVars, apiVars>>

\* _handle_classify_session: session.classification = classification;
\* if notes: session.notes = notes; storage.save_session(session)
AnalystSaveSession ==
    /\ analyst.pc = "loaded"
    /\ LET s == [analyst.session EXCEPT
                    !.classification = analyst.classification,
                    !.notes = IF analyst.notes # "None" THEN analyst.notes ELSE @]
       IN  /\ sessions' = save_session(sessions, s)
           /\ analyst' = [analyst EXCEPT !.pc = "saved", !.session = s]
    /\ UNCHANGED <<clock, nticks, events, evlog, nextId, apiVars>>

AnalystFrame == UNCHANGED <<persona, mcpVars, engVars, srvVars>>

AnalystNext ==
    \/ \E ip \in IPs : HandlerGetOrCreateSession(ip) /\ AnalystFrame
    \/ \E p \in ApiPaths : HandlerSaveEvent(p) /\ AnalystFrame
    \/ HandlerUpdateSession /\ AnalystFrame
    \/ \E id \in 1..2, c \in AnalystClassifications, n \in AnalystNotes :
          AnalystGetSession(id, c, n) /\ AnalystFrame
    \/ AnalystSaveSession /\ AnalystFrame

SpecAnalyst == StorageInit /\ [][AnalystNext]_vars

\* the request the server handled for the analyst's session while
\* classify_session was between its get_session and its save_session or
\* right after it: the events of that session recorded since the get_session
OverlappingEvents ==
    {id \in DOMAIN evobjs \ analyst.since : evobjs[id].session_id = analyst.session.id}

\* C26: when classify_session runs concurrently with the server handling a
\* request for the same session, then after both complete the stored session
\* holds the analyst's classification and notes and the new event's id in
\* request_ids.
C26_NoLostUpdate ==
    (/\ analyst.pc = "saved"
     /\ last.op = "update_session_with_event"
     /\ OverlappingEvents # {})
        => \A t \in get_session(sessions, analyst.session.id) :
              /\ t.classification = analyst.classification
              /\ analyst.notes # "None" => t.notes = analyst.notes
              /\ \A id \in OverlappingEvents : InSeq(id, t.request_ids)


(***************************************************************************)
(* Claims about the storage API.                                           *)
(***************************************************************************)
RECURSIVE FirstOccurrences(_)
FirstOccurrences(s) ==
    IF s = <<>>
    THEN <<>>
    ELSE LET front == FirstOccurrences(SubSeq(s, 1, Len(s) - 1))
             x == s[Len(s)]
         IN  IF InSeq(x, front) THEN front ELSE Append(front, x)

SeqRange(s) == {s[i] : i \in 1..Len(s)}

\* C3: get_or_create_session(ip) returns the most recent stored session of
\* that IP when its last_seen is less than 3600 s in the past and leaves the
\* table alone; otherwise it creates, stores and returns a fresh session
\* with a new id.
C3_GetOrCreateSession ==
    [][(ncalls' = ncalls + 1 /\ last'.op = "get_or_create_session") =>
        LET ip == last'.ip
            ret == last'.ret
            own == {s \in AllSessions(sessions) : s.source_ip = ip}
            recent == {s \in own : \A t \in own : t.last_seen <= s.last_seen}
        IN  IF \E s \in recent : clock - s.last_seen < 3600
            THEN ret \in recent /\ sessions' = sessions
            ELSE /\ ret.id \notin DOMAIN sessions
                 /\ ret.source_ip = ip
                 /\ ret.request_ids = <<>>
                 /\ DOMAIN sessions' = DOMAIN sessions \cup {ret.id}
                 /\ get_session(sessions', ret.id) = {ret}
                 /\ \A k \in DOMAIN sessions : sessions'[k] = sessions[k]]_vars

\* C3 witness: a call that reused a session last seen exactly 3599 s before
C3_Witness ==
    /\ last.op = "get_or_create_session"
    /\ last.at - last.ret.last_seen = 3599
    /\ Cardinality(DOMAIN sessions) = 1

RecordIds == {1, 2}

\* a request body that parsed to an object with a member
JBody == [t |-> "obj", user |-> JStr(<<"admin">>)]

\* valid RequestEvents: body_json is None, {} or an object with members
EventInputs ==
    {[NewEvent(id, "203.0.113.5", "POST", <<"api", "v1", "users">>, "rest_api", 0)
        EXCEPT !.body_json = j] : id \in RecordIds, j \in {JNull, JEmptyObj, JBody}}

\* valid Sessions
SessionInputs ==
    {[NewSession(id, "203.0.113.5", 0)
        EXCEPT !.request_ids = ids, !.request_count = Len(ids)] :
       id \in RecordIds, ids \in {<<>>, <<1>>}}

\* the record the call before this one saved, if it was a save
JustSaved(op) == IF last.op = op THEN {last.arg} ELSE {}

\* (mutant) an OSError of the log append leaves save_event too
Propagates_oserror(fault) == fault # "none"

\* the failures that leave the storage call they happen in: a failed write
\* to the database does; an OSError of the log append is caught in _log_event
Propagates(fault) ==
    fault \in {"get_or_create_session", "save_event", "update_session_with_event"}

RecSaveEvent(e, oserror) ==
    /\ ncalls < MaxCalls
    /\ events' = save_event(events, e)
    /\ evlog' = _log_event(LogFile, evlog, e, oserror)
    /\ last' = [op |-> "save_event", arg |-> e, oserror |-> oserror,
                raised |-> Propagates(IF oserror THEN "log_event" ELSE "none")]
    /\ ncalls' = ncalls + 1
    /\ UNCHANGED <<clock, nticks, sessions, nextId, held, evobjs>>

RecSaveSession(t) ==
    /\ ncalls < MaxCalls
    /\ sessions' = save_session(sessions, t)
    /\ last' = [op |-> "save_session", arg |-> t]
    /\ ncalls' = ncalls + 1
    /\ UNCHANGED <<clock, nticks, events, evlog, nextId, held, evobjs>>

RecGetEvent(id) ==
    /\ ncalls < MaxCalls
    /\ last' = [op |-> "get_event", id |-> id, ret |-> get_event(events, id),
                saved |-> JustSaved("save_event")]
    /\ ncalls' = ncalls + 1
    /\ UNCHANGED <<dbVars, held, evobjs>>

RecGetSession(id) ==
    /\ ncalls < MaxCalls
    /\ last' = [op |-> "get_session", id |-> id, ret |-> get_session(sessions, id),
                saved |-> JustSaved("save_session")]
    /\ ncalls' = ncalls + 1
    /\ UNCHANGED <<dbVars, held, evobjs>>

RecordsNext ==
    \/ \E e \in EventInputs, oserror \in BOOLEAN : RecSaveEvent(e, oserror) /\ StorageFrame
    \/ \E t \in SessionInputs : RecSaveSession(t) /\ StorageFrame
    \/ \E id \in RecordIds : RecGetEvent(id) /\ StorageFrame
    \/ \E id \in RecordIds : RecGetSession(id) /\ StorageFrame

SpecRecords == StorageInit /\ [][RecordsNext]_vars

\* C15: an event read back right after it was saved equals the saved event
\* in every field, and so does a session.
C15_SaveThenLoadRoundTrip ==
    /\ last.op = "get_event" =>
           \A e \in last.saved : e.id = last.id => last.ret = {e}
    /\ last.op = "get_session" =>
           \A t \in last.saved : t.id = last.id => last.ret = {t}

\* C16: save_event and save_session are append-or-replace by primary key:
\* the saved record is stored under its id, every row under another id and
\* the other table stay as they were, and the row count grows by one exactly
\* when the id was not stored before.
C16_AppendOrReplace ==
    [][/\ (ncalls' = ncalls + 1 /\ last'.op = "save_event") =>
             LET e == last'.arg
             IN  /\ DOMAIN events' = DOMAIN events \cup {e.id}
                 /\ events'[e.id] = EventRow(e)
                 /\ \A k \in DOMAIN events \ {e.id} : events'[k] = events[k]
                 /\ Cardinality(DOMAIN events') =
                       Cardinality(DOMAIN events) + (IF e.id \in DOMAIN events THEN 0 ELSE 1)
                 /\ sessions' = sessions
       /\ (ncalls' = ncalls + 1 /\ last'.op = "save_session") =>
             LET t == last'.arg
             IN  /\ DOMAIN sessions' = DOMAIN sessions \cup {t.id}
                 /\ get_session(sessions', t.id) = {t}
                 /\ \A k \in DOMAIN sessions \ {t.id} : sessions'[k] = sessions[k]
                 /\ Cardinality(DOMAIN sessions') =
                       Cardinality(DOMAIN sessions) + (IF t.id \in DOMAIN sessions THEN 0 ELSE 1)
                 /\ events' = events]_vars

\* C16 witness: a second event saved under the id of a different stored
\* event replaced it while another event stayed
C16_Witness ==
    /\ last.op = "save_event"
    /\ Len(evlog) = 3
    /\ Cardinality(DOMAIN events) = 2
    /\ evlog[1].of.id = last.arg.id /\ evlog[1].of # last.arg
    /\ evlog[2].of.id # last.arg.id
    /\ events[last.arg.id] = EventRow(last.arg)
    /\ events[evlog[2].of.id] = EventRow(evlog[2].of)

(***************************************************************************)
(* traps/mcp.py: POST /mcp.                                                *)
(*                                                                         *)
(* A JSON value is a record with a tag t: null, bool, num, nan (the NaN    *)
(* and Infinity literals json.loads accepts), str (v: a sequence of        *)
(* tokens), arr, obj.  A request body is a JSON value, or malformed.  An   *)
(* object carries the members the handler reads; a member that is not     *)
(* there has the tag absent.                                               *)
(***************************************************************************)

\* _TOOL_DEFS: the tool names of each industry that has a table
TOOL_DEFS(industry) ==
    CASE industry = "fintech" ->
            {<<"query_transactions">>, <<"get_customer_profile">>, <<"read_config">>,
             <<"execute_sql">>}
      [] industry = "saas" ->
            {<<"list_users">>, <<"get_api_keys">>, <<"read_logs">>, <<"deploy_service">>}
      [] industry = "healthcare" ->
            {<<"get_patient_record">>, <<"query_prescriptions">>, <<"read_audit_log">>,
             <<"export_report">>}
      [] industry = "ecommerce" ->
            {<<"search_products">>, <<"get_order_details">>, <<"manage_inventory">>,
             <<"process_refund">>}
      [] industry = "devtools" ->
            {<<"list_repositories">>, <<"get_build_status">>, <<"read_secrets">>,
             <<"trigger_deploy">>}
      [] industry = "logistics" ->
            {<<"track_shipment">>, <<"get_warehouse_inventory">>, <<"optimize_route">>,
             <<"create_shipment">>}
      [] OTHER -> {}

\* dict.get(key, default) on a JSON object
JGet(obj, key, default) ==
    IF key \in DOMAIN obj /\ obj[key].t # "absent" THEN obj[key] ELSE default

\* Python's hash(): a list or a dict is unhashable
Hashable(j) == j.t \notin {"arr", "obj"}

\* json.dumps(..., allow_nan=False) of the reply, which echoes the id
Serializable(j) == j.t # "nan"

StartsWith(s, prefix) ==
    Len(prefix) <= Len(s) /\ SubSeq(s, 1, Len(prefix)) = prefix

_make_jsonrpc_response(req_id, result) ==
    [status |-> 200, kind |-> "result", id |-> req_id, result |-> result, code |-> 0]

_make_jsonrpc_error(req_id, code) ==
    [status |-> 200, kind |-> "error", id |-> req_id, result |-> "none", code |-> code]

\* an exception that leaves the handler: the framework answers 500
Raised(exc) ==
    [status |-> 500, kind |-> "exception", id |-> JNull, result |-> exc, code |-> 0]

\* the industries _TOOL_DEFS has a table for
ToolIndustries == {"fintech", "saas", "healthcare", "ecommerce", "devtools", "logistics"}

\* _get_tools_for_persona: the names listed, each with the persona's prefix
_get_tools_for_persona(p) ==
    LET base_tools == IF p.industry \in ToolIndustries
                      THEN TOOL_DEFS(p.industry)
                      ELSE TOOL_DEFS("saas")
    IN  {p.mcp_tool_prefix \o name : name \in base_tools}

_handle_tools_list(p, req_id) ==
    _make_jsonrpc_response(req_id, [tools |-> _get_tools_for_persona(p)])

_handle_tools_call(p, req_id, params) ==
    IF params.t # "obj"
    THEN Raised("AttributeError")               \* params.get
    ELSE LET tool_name_raw == JGet(params, "name", JStr(<<>>))
         IN  IF tool_name_raw.t # "str"
             THEN Raised("AttributeError")      \* tool_name_raw.startswith
             ELSE LET raw == tool_name_raw.v
                      prefix == p.mcp_tool_prefix
                      tool_name == IF StartsWith(raw, prefix)
                                   THEN SubSeq(raw, Len(prefix) + 1, Len(raw))
                                   ELSE raw
                  IN  IF tool_name \notin TOOL_DEFS(p.industry)
                      THEN _make_jsonrpc_error(req_id, -32602)
                      ELSE _make_jsonrpc_response(req_id,
                               [content |-> <<[type |-> "text", text |-> tool_name]>>])

\* the handler's reply before it is rendered
mcp_dispatch(p, body) ==
    IF body.t = "malformed"
    THEN _make_jsonrpc_error(JNull, -32700)
    ELSE IF body.t # "obj"
    THEN _make_jsonrpc_error(JNull, -32600)
    ELSE LET req_id == JGet(body, "id", JNull)
             method == JGet(body, "method", JStr(<<"">>))
             params == JGet(body, "params", [t |-> "obj"])
         IN  IF method = JStr(<<"notifications/initialized">>)
             THEN [status |-> 200, kind |-> "empty", id |-> JNull, result |-> "none",
                   code |-> 0]
             ELSE IF ~Hashable(method)
             THEN Raised("TypeError")           \* _METHOD_HANDLERS.get(method)
             ELSE IF method = JStr(<<"initialize">>)
             THEN _make_jsonrpc_response(req_id, "initialize")
             ELSE IF method = JStr(<<"tools/list">>)
             THEN _handle_tools_list(p, req_id)
             ELSE IF method = JStr(<<"tools/call">>)
             THEN _handle_tools_call(p, req_id, params)
             ELSE _make_jsonrpc_error(req_id, -32601)

\* mcp_endpoint: the reply as JSONResponse renders it
mcp_endpoint(p, body) ==
    LET reply == mcp_dispatch(p, body)
    IN  IF reply.status = 200 /\ ~Serializable(reply.id)
        THEN Raised("ValueError")
        ELSE reply

McpIds == {JAbsent, JNull, JNum, JStr(<<"req-1">>)}
McpMethods ==
    {JAbsent, JNull, JNum, JArr,
     JStr(<<"initialize">>), JStr(<<"notifications/initialized">>),
     JStr(<<"tools/list">>), JStr(<<"tools/call">>), JStr(<<"resources/list">>)}
McpNames ==
    {JAbsent, JNum, JStr(<<"user_", "list_users">>), JStr(<<"list_users">>),
     JStr(<<"repo_", "read_secrets">>), JStr(<<"unknown_tool">>)}
McpParams ==
    {JAbsent, JNull, JArr, JStr(<<"list_users">>)}
        \cup {[t |-> "obj", name |-> n] : n \in McpNames}
McpBodies ==
    {JMalformed, JNull, JNum, JArr, JStr(<<"initialize">>)}
        \cup {[t |-> "obj", id |-> i, method |-> m, params |-> q] :
                i \in McpIds, m \in McpMethods, q \in McpParams}
        \cup {[t |-> "obj", id |-> JNaN, method |-> JStr(<<"initialize">>),
               params |-> JAbsent]}

McpPersonas ==
    {ThePersona,
     [ThePersona EXCEPT !.industry = "devtools", !.mcp_tool_prefix = <<"repo_">>],
     [ThePersona EXCEPT !.mcp_tool_prefix = <<>>],
     [ThePersona EXCEPT !.industry = "education"]}

McpInit ==
    /\ persona \in McpPersonas
    /\ McpIdle
    /\ DbInit
    /\ ApiIdle
    /\ EngineIdle
    /\ ServerIdle

\* the request arrives; the handler sleeps response_latency_ms
McpReceive(body) ==
    /\ mcpPc = "idle"
    /\ mcpPc' = "sleeping"
    /\ mcpBody' = body
    /\ UNCHANGED mcpResp

\* the handler parses the body, dispatches and answers
McpRespond ==
    /\ mcpPc = "sleeping"
    /\ mcpPc' = "done"
    /\ mcpResp' = mcp_endpoint(persona, mcpBody)
    /\ UNCHANGED mcpBody

\* the next request
McpNextRequest ==
    /\ mcpPc = "done"
    /\ mcpPc' = "idle"
    /\ mcpBody' = JAbsent
    /\ mcpResp' = [status |-> 0]

McpFrame == UNCHANGED <<dbVars, apiVars, analyst, persona, engVars, srvVars>>

McpNext ==
    \/ \E b \in McpBodies : McpReceive(b) /\ McpFrame
    \/ McpRespond /\ McpFrame
    \/ McpNextRequest /\ McpFrame

SpecMcp == McpInit /\ [][McpNext]_vars

\* C7: every POST to /mcp is answered with HTTP status 200, whatever the
\* request body is.
C7_McpAlways200 ==
    mcpPc = "done" => mcpResp.status = 200

\* the four methods POST /mcp knows
KnownMethods ==
    {JStr(<<"initialize">>), JStr(<<"notifications/initialized">>),
     JStr(<<"tools/list">>), JStr(<<"tools/call">>)}

\* C19: a malformed body is answered with error -32700 and id null, a
\* well-formed body that is not an object with -32600 and id null, and an
\* object whose method is none of the four known ones with -32601 and the
\* request's own id.
C19_McpErrorCodes ==
    mcpPc = "done" =>
        /\ mcpBody = JMalformed =>
              mcpResp.kind = "error" /\ mcpResp.code = -32700 /\ mcpResp.id = JNull
        /\ mcpBody.t \notin {"malformed", "obj"} =>
              mcpResp.kind = "error" /\ mcpResp.code = -32600 /\ mcpResp.id = JNull
        /\ (mcpBody.t = "obj" /\ JGet(mcpBody, "method", JAbsent) \notin KnownMethods) =>
              /\ mcpResp.kind = "error" /\ mcpResp.code = -32601
              /\ mcpResp.id = JGet(mcpBody, "id", JNull)

\* the requested name without the persona's tool prefix
StrippedName(p, raw) ==
    IF StartsWith(raw, p.mcp_tool_prefix)
    THEN SubSeq(raw, Len(p.mcp_tool_prefix) + 1, Len(raw))
    ELSE raw

\* the tools/call request names a tool of the persona's industry, with or
\* without the persona's prefix
NamesIndustryTool(p, body) ==
    LET params == JGet(body, "params", JEmptyObj)
    IN  /\ params.t = "obj"
        /\ JGet(params, "name", JAbsent).t = "str"
        /\ StrippedName(p, JGet(params, "name", JAbsent).v) \in TOOL_DEFS(p.industry)

\* C20: a tools/call request whose name, stripped of the persona's tool
\* prefix, is a tool of the persona's industry is answered with a success
\* result whose content is a single text item; every other tools/call
\* request is answered with JSON-RPC error -32602.
C20_ToolsCall ==
    (mcpPc = "done" /\ mcpBody.t = "obj"
       /\ JGet(mcpBody, "method", JAbsent) = JStr(<<"tools/call">>))
    => IF NamesIndustryTool(persona, mcpBody)
       THEN /\ mcpResp.kind = "result"
            /\ Len(mcpResp.result.content) = 1
            /\ mcpResp.result.content[1].type = "text"
       ELSE mcpResp.kind = "error" /\ mcpResp.code = -32602

\* C29: for every persona, one whose industry has no tool table of its own
\* included, every tool name tools/list returns is accepted by tools/call:
\* calling it yields a success result and never error -32602.
C29_ListedToolsAreCallable ==
    (/\ mcpPc = "done" /\ mcpBody.t = "obj"
     /\ JGet(mcpBody, "method", JAbsent) = JStr(<<"tools/call">>)
     /\ JGet(mcpBody, "params", JEmptyObj).t = "obj"
     /\ JGet(JGet(mcpBody, "params", JEmptyObj), "name", JAbsent).t = "str"
     /\ JGet(JGet(mcpBody, "params", JEmptyObj), "name", JAbsent).v
            \in mcp_dispatch(persona, [t |-> "obj", id |-> JNum,
                                       method |-> JStr(<<"tools/list">>),
                                       params |-> JAbsent]).result.tools)
    => mcpResp.kind = "result"

(***************************************************************************)
(* persona/engine.py: the template cache, and server.py's rendering of a   *)
(* response from it.  A template is [method, endpoint, status_code]; an    *)
(* endpoint is the sequence of its path components.                        *)
(***************************************************************************)
\* body_template is kept as the set of the {{...}} texts that occur in it
Template(method, endpoint, status) ==
    [method |-> method, endpoint |-> endpoint, status_code |-> status,
     body_template |-> {}]

\* ResponseTemplate(..., body_template=...)
WithBody(t, placeholders) == [t EXCEPT !.body_template = placeholders]

\* interpolation.py: the built-in variables of interpolate
BuiltInVariables ==
    {"{{timestamp}}", "{{request_id}}", "{{random_id}}", "{{random_int}}",
     "{{response_time_ms}}"}

\* interpolation.py interpolate: the {{...}} texts left in the result; a
\* placeholder whose name is neither built in nor in the context stays
interpolate(template, context) == template \ (BuiltInVariables \cup context)

\* the path components in the universe of the model that start with "{{"
\* and end with "}}"
DoubleBraced == {"{{id}}", "{{random_id}}", "{{resource}}"}

TemplateKey(t) == <<t.method, t.endpoint>>

\* register_template: a dict assignment; a key that is there keeps its place
register_template(cache, t) ==
    IF \E i \in 1..Len(cache) : TemplateKey(cache[i]) = TemplateKey(t)
    THEN [i \in 1..Len(cache) |->
            IF TemplateKey(cache[i]) = TemplateKey(t) THEN t ELSE cache[i]]
    ELSE Append(cache, t)

RECURSIVE RegisterAll(_, _)
RegisterAll(cache, tpls) ==
    IF tpls = <<>> THEN cache
    ELSE RegisterAll(register_template(cache, Head(tpls)), Tail(tpls))

\* for item in raw: register_template(ResponseTemplate.model_validate(item)),
\* which stops at the first item that does not validate
RECURSIVE RegisterItems(_, _)
RegisterItems(cache, items) ==
    IF items = <<>> THEN [templates |-> cache, raised |-> FALSE]
    ELSE IF ~Head(items).ok THEN [templates |-> cache, raised |-> TRUE]
    ELSE RegisterItems(register_template(cache, Head(items).tpl), Tail(items))

\* _generate_minimal_defaults: list, detail, create, health.  The detail
\* endpoint is written in an f-string, f"{prefix}/{theme}/{{random_id}}",
\* whose last component is therefore the text {random_id}.
_generate_minimal_defaults(cache, p) ==
    LET prefix == p.endpoint_prefix
        theme == p.data_theme
    IN  RegisterAll(cache,
            <<WithBody(Template("GET", prefix \o <<theme>>, 200), {"{{request_id}}"}),
              WithBody(Template("GET", prefix \o <<theme, "{random_id}">>, 200),
                       {"{{random_id}}", "{{timestamp}}"}),
              WithBody(Template("POST", prefix \o <<theme>>, 201),
                       {"{{random_id}}", "{{timestamp}}"}),
              WithBody(Template("GET", prefix \o <<"health">>, 200), {"{{timestamp}}"})>>)

GenericPrefixes == <<<<"api", "v1">>, <<"api", "v2">>, <<"v1">>, <<"api">>>>

\* _adjust_template_to_persona: the first generic prefix the endpoint starts
\* with is replaced by the persona's, and {{company_name}} in the body by
\* the company name
_adjust_template_to_persona(t, p) ==
    LET hits == {i \in 1..Len(GenericPrefixes) : StartsWith(t.endpoint, GenericPrefixes[i])}
        body == t.body_template \ {"{{company_name}}"}
    IN  IF hits = {}
        THEN [t EXCEPT !.body_template = body]
        ELSE LET first == CHOOSE i \in hits : \A j \in hits : i <= j
                 g == GenericPrefixes[first]
             IN  [t EXCEPT !.endpoint =
                     p.endpoint_prefix \o SubSeq(t.endpoint, Len(g) + 1, Len(t.endpoint)),
                           !.body_template = body]

\* _load_persona_pack: None for a file that is missing or does not validate
_load_persona_pack(files, p, industry) ==
    LET f == IF industry = p.industry THEN files.own ELSE files.saas
    IN  IF f.kind = "pack" THEN f ELSE [kind |-> "None"]

\* _load_from_packs
_load_from_packs(cache, files, p) ==
    LET own == _load_persona_pack(files, p, p.industry)
        pack == IF own.kind = "None" THEN _load_persona_pack(files, p, "saas") ELSE own
    IN  IF pack.kind = "None"
        THEN _generate_minimal_defaults(cache, p)
        ELSE RegisterAll(cache,
                 [i \in 1..Len(pack.templates) |->
                     _adjust_template_to_persona(pack.templates[i], p)])

\* _parse_llm_response: [templates, raised]; raised is an exception the
\* method does not catch (iterating a JSON scalar is a TypeError)
_parse_llm_response(cache, text, p) ==
    CASE text.kind = "not_json" ->
            [templates |-> _generate_minimal_defaults(cache, p), raised |-> FALSE]
      [] text.kind = "scalar" ->
            [templates |-> cache, raised |-> TRUE]
      [] text.kind = "list" ->
            LET r == RegisterItems(cache, text.items)
            IN  IF r.raised
                THEN [templates |-> _generate_minimal_defaults(r.templates, p),
                      raised |-> FALSE]
                ELSE r

\* _generate_with_ollama / _anthropic / _openai: [templates, raised, packs];
\* packs says whether _load_from_packs was called
_generate_with(provider, cache, llm, files, p) ==
    IF llm.kind = "unreachable"
    THEN [templates |-> _load_from_packs(cache, files, p), raised |-> FALSE,
          packs |-> TRUE]
    ELSE LET r == _parse_llm_response(cache, llm, p)
         IN  IF ~r.raised
             THEN [templates |-> r.templates, raised |-> FALSE, packs |-> FALSE]
             ELSE IF provider = "ollama"
             THEN [templates |-> r.templates, raised |-> TRUE,
                   packs |-> FALSE]      \* except (httpx.HTTPError, KeyError)
             ELSE [templates |-> _load_from_packs(r.templates, files, p),
                   raised |-> FALSE, packs |-> TRUE]     \* except Exception

\* _load_from_cache: [templates, loaded, raised]
_load_from_cache(cache, file) ==
    CASE file.kind = "missing" ->
            [templates |-> cache, loaded |-> FALSE, raised |-> FALSE]
      [] file.kind = "malformed" ->
            [templates |-> cache, loaded |-> FALSE, raised |-> FALSE]
      [] file.kind = "scalar" ->
            [templates |-> cache, loaded |-> FALSE, raised |-> TRUE]
      [] file.kind = "list" ->
            LET r == RegisterItems(cache, file.items)
            IN  [templates |-> r.templates,
                 loaded |-> ~r.raised /\ r.templates # <<>>,
                 raised |-> FALSE]

\* _save_to_cache: the file holds the templates
_save_to_cache(cache) ==
    [kind |-> "list", items |-> [i \in 1..Len(cache) |-> [ok |-> TRUE, tpl |-> cache[i]]]]

\* initialize: [templates, file, raised, consulted]; consulted is what was
\* asked for templates besides the cache
initialize(cache, file, files, p, force_regenerate, provider, llm) ==
    LET c == IF force_regenerate
             THEN [templates |-> cache, loaded |-> FALSE, raised |-> FALSE]
             ELSE _load_from_cache(cache, file)
    IN  IF c.raised
        THEN [templates |-> c.templates, file |-> file, raised |-> TRUE, consulted |-> {}]
        ELSE IF c.loaded
        THEN [templates |-> c.templates, file |-> file, raised |-> FALSE, consulted |-> {}]
        ELSE LET g == IF provider \in {"ollama", "anthropic", "openai"}
                      THEN _generate_with(provider, c.templates, llm, files, p)
                      ELSE [templates |-> _load_from_packs(c.templates, files, p),
                            raised |-> FALSE, packs |-> TRUE]
                 consulted == (IF provider \in {"ollama", "anthropic", "openai"}
                               THEN {"llm"} ELSE {})
                              \cup (IF g.packs THEN {"packs"} ELSE {})
             IN  IF g.raised
                 THEN [templates |-> g.templates, file |-> file, raised |-> TRUE,
                       consulted |-> consulted]
                 ELSE [templates |-> g.templates, file |-> _save_to_cache(g.templates),
                       raised |-> FALSE, consulted |-> consulted]

\* get_template: the exact key
get_template(cache, endpoint, method) ==
    {cache[i] : i \in {j \in 1..Len(cache) : TemplateKey(cache[j]) = <<method, endpoint>>}}

\* server.py _path_matches
_path_matches(request_path, template_path) ==
    /\ Len(request_path) = Len(template_path)
    /\ \A i \in 1..Len(request_path) :
          template_path[i] \in DoubleBraced \/ request_path[i] = template_path[i]

\* server.py _match_template: the template rendered, if any: the one under
\* the exact key, else the first in the cache's order that matches
MatchedTemplate(cache, path, method) ==
    LET exact == get_template(cache, path, method)
        hits == {i \in 1..Len(cache) :
                   _path_matches(path, cache[i].endpoint) /\ cache[i].method = method}
    IN  IF exact # {} THEN exact
        ELSE IF hits # {} THEN {cache[CHOOSE i \in hits : \A j \in hits : i <= j]}
        ELSE {}

\* server.py _match_template: the status of the response; engine is None
\* until _startup has built it
_match_template(engineIsNone, cache, path, method) ==
    IF engineIsNone THEN 503
    ELSE LET exact == get_template(cache, path, method)
             hits == {i \in 1..Len(cache) :
                        _path_matches(path, cache[i].endpoint) /\ cache[i].method = method}
         IN  IF exact # {} THEN (CHOOSE t \in exact : TRUE).status_code
             ELSE IF hits # {}
             THEN cache[CHOOSE i \in hits : \A j \in hits : i <= j].status_code
             ELSE 404

\* server.py _error_response: the {{...}} texts in the error body.  Every
\* error style writes the message, which quotes the request path; the
\* rfc7807 style adds interpolate('{{request_id}}')
_error_response(p, path) ==
    {path[i] : i \in {j \in 1..Len(path) : path[j] \in DoubleBraced}}
        \cup (IF p.error_style = "rfc7807" THEN interpolate({"{{request_id}}"}, {}) ELSE {})

\* server.py _match_template: the {{...}} texts in the body of the response
ResponseBody(p, cache, path, method) ==
    LET hit == MatchedTemplate(cache, path, method)
    IN  IF hit = {}
        THEN _error_response(p, path)
        ELSE interpolate((CHOOSE t \in hit : TRUE).body_template, {"{{source_ip}}"})

T_list == Template("GET", <<"api", "v1", "users">>, 200)
T_detail == Template("GET", <<"api", "v1", "users", "{{id}}">>, 200)
T_create == Template("POST", <<"v1", "users">>, 201)
T_any == Template("GET", <<"api", "v1", "{{resource}}", "{{id}}">>, 200)

ValidItem(t) == [ok |-> TRUE, tpl |-> t]
InvalidItem == [ok |-> FALSE]

ItemLists ==
    {<<>>, <<ValidItem(T_list)>>, <<ValidItem(T_list), InvalidItem>>, <<InvalidItem>>}
CacheFiles ==
    {[kind |-> "missing"], [kind |-> "malformed"], [kind |-> "scalar"]}
        \cup {[kind |-> "list", items |-> l] : l \in ItemLists}
PackFileStates ==
    {[kind |-> "missing"], [kind |-> "malformed"],
     [kind |-> "pack", templates |-> <<>>],
     [kind |-> "pack", templates |-> <<T_any, T_detail, T_create>>]}
LlmOutcomes ==
    {[kind |-> "unreachable"], [kind |-> "not_json"], [kind |-> "scalar"]}
        \cup {[kind |-> "list", items |-> l] : l \in ItemLists}
Providers == {"none", "ollama", "anthropic", "openai", "bedrock"}
EnginePersonas ==
    {ThePersona, [ThePersona EXCEPT !.industry = "devtools", !.data_theme = "builds",
                                    !.endpoint_prefix = <<"v2">>]}
ServedPaths ==
    {<<"api", "v1", "users">>, <<"api", "v1", "users", "42">>, <<"v2", "builds">>,
     <<"nope">>}

EngineInit ==
    /\ persona \in EnginePersonas
    /\ engPc = "new"
    /\ templates = <<>>
    /\ cacheFile \in CacheFiles
    /\ packFiles \in {f \in [own : PackFileStates, saas : PackFileStates] :
                        persona.industry = "saas" => f.own = f.saas}
    /\ engRun = [provider |-> "none"]
    /\ engResp = 0
    /\ engServed = NothingServed
    /\ DbInit
    /\ ApiIdle
    /\ McpIdle
    /\ ServerIdle

\* PersonaEngine(...) followed by await engine.initialize(force_regenerate)
EngineInitialize(force_regenerate, provider, llm) ==
    /\ engPc = "new"
    /\ LET r == initialize(templates, cacheFile, packFiles, persona,
                           force_regenerate, provider, llm)
       IN  /\ templates' = r.templates
           /\ cacheFile' = r.file
           /\ engPc' = IF r.raised THEN "failed" ELSE "ready"
    /\ engRun' = [provider |-> provider, force |-> force_regenerate, llm |-> llm,
                  file |-> cacheFile,
                  consulted |-> initialize(templates, cacheFile, packFiles, persona,
                                           force_regenerate, provider, llm).consulted]
    /\ UNCHANGED <<packFiles, engResp, engServed>>

\* a request the catch-all renders from the cache, once startup has finished
EngineServe(path, method) ==
    /\ engPc = "ready"
    /\ engResp' = _match_template(FALSE, templates, path, method)
    /\ engServed' = [path |-> path, method |-> method,
                     template |-> MatchedTemplate(templates, path, method)]
    /\ UNCHANGED <<engPc, templates, cacheFile, packFiles, engRun>>

\* the process is started again: a new engine over the same data directory
EngineRestart ==
    /\ engPc \in {"ready", "failed"}
    /\ engPc' = "new"
    /\ templates' = <<>>
    /\ engResp' = 0
    /\ engServed' = NothingServed
    /\ UNCHANGED <<cacheFile, packFiles, engRun>>

EngineFrame == UNCHANGED <<dbVars, apiVars, analyst, persona, mcpVars, srvVars>>

EngineNext ==
    \/ \E f \in BOOLEAN, pr \in Providers, llm \in LlmOutcomes :
          EngineInitialize(f, pr, llm) /\ EngineFrame
    \/ \E path \in ServedPaths, m \in {"GET", "POST"} : EngineServe(path, m) /\ EngineFrame
    \/ EngineRestart /\ EngineFrame

SpecEngine == EngineInit /\ [][EngineNext]_vars

\* C10: after initialize completes the template cache holds at least one
\* template, and no request is then answered with 503.
C10_CacheNeverEmpty ==
    engPc = "ready" => (Len(templates) >= 1 /\ engResp # 503)

\* what the last initialize found in the cache file, when it looked
CacheLoad ==
    IF engRun.force
    THEN [templates |-> <<>>, loaded |-> FALSE, raised |-> FALSE]
    ELSE _load_from_cache(<<>>, engRun.file)

LlmProviders == {"ollama", "anthropic", "openai"}

\* the generation failed: the provider was unreachable, or its reply is not a
\* JSON array, or is an array with an invalid template
GenerationFailed(llm) ==
    \/ llm.kind \in {"unreachable", "not_json", "scalar"}
    \/ llm.kind = "list" /\ \E i \in 1..Len(llm.items) : ~llm.items[i].ok

\* C11: with provider ollama, anthropic or openai, whenever the generation
\* fails initialize returns normally and the cache holds what the pack
\* fallback registers.
C11_LlmFailureFallsBackToPacks ==
    (engPc # "new" /\ engRun.provider \in LlmProviders
       /\ ~CacheLoad.raised /\ ~CacheLoad.loaded /\ GenerationFailed(engRun.llm))
    => (engPc = "ready"
          /\ templates = _load_from_packs(CacheLoad.templates, packFiles, persona))

\* a cache file that holds a JSON array of valid templates
WellFormedCache(file) ==
    file.kind = "list" /\ \A i \in 1..Len(file.items) : file.items[i].ok

\* C12: when a template cache exists and force_regenerate is not set,
\* initialize registers the cached templates and stops: neither a pack nor
\* the LLM is consulted and the cache file is not rewritten.
C12_CacheLoadedAndNothingElse ==
    (engPc # "new" /\ ~engRun.force /\ WellFormedCache(engRun.file))
    => (engPc = "ready"
          /\ templates = [i \in 1..Len(engRun.file.items) |-> engRun.file.items[i].tpl]
          /\ engRun.consulted = {}
          /\ cacheFile = engRun.file)

\* the pack _load_from_packs ends with: the industry's, else the saas one
PackOf(files, p) ==
    IF files.own.kind = "pack" THEN files.own
    ELSE IF files.saas.kind = "pack" THEN files.saas
    ELSE [kind |-> "None"]

MinimalSet(p) ==
    SeqRange(_generate_minimal_defaults(<<>>, p))

\* C13: with provider none and a cache that did not load, initialize
\* registers the templates of the industry's pack, else those of the saas
\* pack, else exactly the minimal built-in set.
C13_PackFallbackChain ==
    (engPc # "new" /\ engRun.provider = "none"
       /\ ~CacheLoad.raised /\ ~CacheLoad.loaded)
    => (engPc = "ready"
          /\ IF PackOf(packFiles, persona).kind = "pack"
             THEN \A i \in 1..Len(PackOf(packFiles, persona).templates) :
                     InSeq(_adjust_template_to_persona(
                               PackOf(packFiles, persona).templates[i], persona),
                           templates)
             ELSE SeqRange(templates) = MinimalSet(persona))

\* the number of {{var}} components of a template endpoint
Wildcards(endpoint) == Cardinality({i \in 1..Len(endpoint) : endpoint[i] \in DoubleBraced})

\* C14: the template a request is rendered from is the most specific of the
\* registered templates that match its method and path: none of them has
\* fewer {{var}} components (an exact path has none).
C14_MostSpecificTemplateWins ==
    \A t \in engServed.template : \A i \in 1..Len(templates) :
        (templates[i].method = engServed.method
           /\ _path_matches(engServed.path, templates[i].endpoint))
        => Wildcards(t.endpoint) <= Wildcards(templates[i].endpoint)

\* C30: when the engine holds only the minimal default set, a GET for
\* {prefix}/{data_theme}/<id> is resolved by the catch-all to the default
\* detail template, whatever the single component <id> is.
C30_DefaultDetailMatchesAnyId ==
    (/\ engPc = "ready"
     /\ SeqRange(templates) = MinimalSet(persona)
     /\ engServed.method = "GET"
     /\ Len(engServed.path) = Len(persona.endpoint_prefix) + 2
     /\ SubSeq(engServed.path, 1, Len(persona.endpoint_prefix) + 1)
           = persona.endpoint_prefix \o <<persona.data_theme>>)
    => /\ engResp = 200
       /\ \E t \in engServed.template :
             /\ t.method = "GET"
             /\ Len(t.endpoint) = Len(engServed.path)
             /\ "{{random_id}}" \in t.body_template

(***************************************************************************)
(* fingerprint.py and classify.py.  A signal score is in hundredths, the   *)
(* composite in ten-thousandths (the weights are hundredths).              *)
(***************************************************************************)
\* score_header_anomalies over what the function looks at in the headers
score_header_anomalies(h) ==
    LET ua == IF h.user_agent = "None" THEN 30
              ELSE IF h.user_agent = "bot" THEN 30
              ELSE IF h.user_agent # "browser" THEN 20 ELSE 0
        referer == IF h.referer THEN 0 ELSE 10
        accept == IF h.accept = "application/json" THEN 10
                  ELSE IF h.accept = "*/*" THEN 5
                  ELSE IF h.accept = "None" THEN 15 ELSE 0
        language == IF h.accept_language THEN 0 ELSE 10
        encoding == IF h.accept_encoding THEN 0 ELSE 5
        ai == IF h.ai_header THEN 30 ELSE 0
        score == ua + referer + accept + language + encoding + ai
    IN  IF score < 100 THEN score ELSE 100

\* score_prompt_leakage over the number of _PROMPT_LEAK_PATTERNS the body matches
score_prompt_leakage(matches) ==
    IF matches >= 4 THEN 100
    ELSE IF matches >= 2 THEN 80
    ELSE IF matches >= 1 THEN 50 ELSE 0

\* score_timing_regularity over the number of intervals, whether their mean
\* is zero, and their coefficient of variation in hundredths
score_timing_regularity(iv) ==
    IF iv.len < 2 THEN 0
    ELSE IF iv.mean_zero THEN 100
    ELSE IF iv.cv < 5 THEN 100
    ELSE IF iv.cv < 15 THEN 80
    ELSE IF iv.cv < 30 THEN 50
    ELSE IF iv.cv < 50 THEN 30
    ELSE 10

\* score_path_enumeration over the number of paths, of unique paths, of unique
\* paths matching _SYSTEMATIC_PATTERNS, of discovery paths visited, and
\* whether the paths were visited in sorted order
score_path_enumeration(ps) ==
    IF ps.len < 3 THEN 0
    ELSE LET systematic == IF ps.systematic_hits >= 3 THEN 40
                           ELSE IF ps.systematic_hits >= 1 THEN 20 ELSE 0
             ordered == IF ps.sorted THEN 30 ELSE 0
             ratio == IF 10 * ps.unique > 9 * ps.len THEN 20
                      ELSE IF 10 * ps.unique > 7 * ps.len THEN 10 ELSE 0
             discovery == IF ps.discovery >= 2 THEN 20 ELSE 0
             score == systematic + ordered + ratio + discovery
         IN  IF score < 100 THEN score ELSE 100

\* score_mcp_behavior(used_mcp, mcp_methods_called)
score_mcp_behavior(used_mcp, mcp_methods_called) ==
    IF ~used_mcp THEN 0
    ELSE LET score == 70
                      + (IF "initialize" \in mcp_methods_called THEN 10 ELSE 0)
                      + (IF "tools/list" \in mcp_methods_called THEN 10 ELSE 0)
                      + (IF "tools/call" \in mcp_methods_called THEN 10 ELSE 0)
         IN  IF score < 100 THEN score ELSE 100

W_TIMING == 15
W_PATHS == 20
W_HEADER == 20
W_PROMPT == 20
W_MCP == 25

\* the weights of the first two signals exchanged
compute_composite_score_swapped(timing, paths, header, prompt, mcp) ==
    LET raw == W_PATHS * timing + W_TIMING * paths + W_HEADER * header
               + W_PROMPT * prompt + W_MCP * mcp
    IN  IF raw < 0 THEN 0 ELSE IF raw > 10000 THEN 10000 ELSE raw

compute_composite_score(timing, paths, header, prompt, mcp) ==
    LET raw == W_TIMING * timing + W_PATHS * paths + W_HEADER * header
               + W_PROMPT * prompt + W_MCP * mcp
    IN  IF raw < 0 THEN 0 ELSE IF raw > 10000 THEN 10000 ELSE raw

\* fingerprint_request(headers, body) with paths_in_session, intervals_ms and
\* mcp_methods left at None and used_mcp at False: those signals are 0.0
fingerprint_request(headers, matches) ==
    LET header == score_header_anomalies(headers)
        prompt == score_prompt_leakage(matches)
    IN  [timing_regularity |-> 0, path_enumeration |-> 0, header_anomaly |-> header,
         prompt_leakage |-> prompt, mcp_behavior |-> 0,
         composite |-> compute_composite_score(0, 0, header, prompt, 0)]

\* fingerprint_request with every keyword argument given
fingerprint_request_kwargs(headers, matches, paths, intervals, used_mcp, mcp_methods) ==
    LET timing == score_timing_regularity(intervals)
        path_score == score_path_enumeration(paths)
        header == score_header_anomalies(headers)
        prompt == score_prompt_leakage(matches)
        mcp == score_mcp_behavior(used_mcp, mcp_methods)
    IN  [timing_regularity |-> timing, path_enumeration |-> path_score,
         header_anomaly |-> header, prompt_leakage |-> prompt, mcp_behavior |-> mcp,
         composite |-> compute_composite_score(timing, path_score, header, prompt, mcp)]

THRESHOLD_HUMAN == 3000
THRESHOLD_AUTOMATED == 6000
THRESHOLD_AI_ASSISTED == 8000

\* every threshold belongs to the tier below it
classify_inclusive(composite_score) ==
    IF composite_score < 0 \/ composite_score > 10000 THEN "ValueError"
    ELSE IF composite_score <= THRESHOLD_HUMAN THEN HUMAN
    ELSE IF composite_score <= THRESHOLD_AUTOMATED THEN AUTOMATED
    ELSE IF composite_score <= THRESHOLD_AI_ASSISTED THEN AI_ASSISTED
    ELSE AI_AGENT

classify(composite_score) ==
    IF composite_score < 0 \/ composite_score > 10000 THEN "ValueError"
    ELSE IF composite_score < THRESHOLD_HUMAN THEN HUMAN
    ELSE IF composite_score < THRESHOLD_AUTOMATED THEN AUTOMATED
    ELSE IF composite_score < THRESHOLD_AI_ASSISTED THEN AI_ASSISTED
    ELSE AI_AGENT

(***************************************************************************)
(* The scoring functions called on their own: classify on composite scores *)
(* around every threshold and outside the range, fingerprint_request on     *)
(* requests and sessions that exercise each of the five signals.           *)
(***************************************************************************)
ScoreInputs ==
    {-10000, -1, 0, 1, 2999, 3000, 3001, 5999, 6000, 6001, 7999, 8000, 8001,
     9999, 10000, 10001, 20000}

HeaderInputs ==
    {[user_agent |-> "bot", referer |-> FALSE, accept |-> "*/*",
      accept_language |-> FALSE, accept_encoding |-> FALSE, ai_header |-> FALSE],
     [user_agent |-> "browser", referer |-> TRUE, accept |-> "other",
      accept_language |-> TRUE, accept_encoding |-> TRUE, ai_header |-> FALSE],
     [user_agent |-> "None", referer |-> FALSE, accept |-> "None",
      accept_language |-> FALSE, accept_encoding |-> FALSE, ai_header |-> TRUE]}

MatchInputs == {0, 1, 2, 4}

IntervalInputs ==
    {[len |-> 0, mean_zero |-> FALSE, cv |-> 0],
     [len |-> 2, mean_zero |-> TRUE, cv |-> 0],
     [len |-> 3, mean_zero |-> FALSE, cv |-> 14],
     [len |-> 3, mean_zero |-> FALSE, cv |-> 30],
     [len |-> 3, mean_zero |-> FALSE, cv |-> 70]}

PathInputs ==
    {[len |-> 0, unique |-> 0, systematic_hits |-> 0, discovery |-> 0, sorted |-> TRUE],
     [len |-> 4, unique |-> 3, systematic_hits |-> 1, discovery |-> 0, sorted |-> FALSE],
     [len |-> 3, unique |-> 3, systematic_hits |-> 3, discovery |-> 2, sorted |-> FALSE],
     [len |-> 5, unique |-> 5, systematic_hits |-> 5, discovery |-> 5, sorted |-> TRUE]}

McpInputs ==
    {[used_mcp |-> FALSE, mcp_methods |-> {}],
     [used_mcp |-> TRUE, mcp_methods |-> {}],
     [used_mcp |-> TRUE, mcp_methods |-> {"initialize", "tools/list", "tools/call"}]}

\* the caller keeps what the previous classify call was given and returned
CallClassify(score) ==
    last' = [op |-> "classify", score |-> score, ret |-> classify(score),
             before |-> IF last.op = "classify"
                        THEN <<[score |-> last.score, ret |-> last.ret]>>
                        ELSE <<>>]

CallFingerprintRequest(headers, matches, paths, intervals, mcp) ==
    last' = [op |-> "fingerprint_request",
             ret |-> fingerprint_request_kwargs(headers, matches, paths, intervals,
                                                mcp.used_mcp, mcp.mcp_methods)]

ScoringFrame ==
    UNCHANGED <<dbVars, held, evobjs, ncalls, analyst, persona, mcpVars, engVars, srvVars>>

ScoringNext ==
    \/ \E score \in ScoreInputs : CallClassify(score) /\ ScoringFrame
    \/ \E h \in HeaderInputs, m \in MatchInputs, ps \in PathInputs,
          iv \in IntervalInputs, mcp \in McpInputs :
          CallFingerprintRequest(h, m, ps, iv, mcp) /\ ScoringFrame

SpecScoring == StorageInit /\ [][ScoringNext]_vars

Tiers == <<HUMAN, AUTOMATED, AI_ASSISTED, AI_AGENT>>
TierRank(tier) == CHOOSE i \in 1..4 : Tiers[i] = tier

C25_CompositeIsWeightedSum ==
    last.op = "fingerprint_request" =>
        LET r == last.ret
            sum == 15 * r.timing_regularity + 20 * r.path_enumeration
                   + 20 * r.header_anomaly + 20 * r.prompt_leakage
                   + 25 * r.mcp_behavior
        IN  r.composite = IF sum < 0 THEN 0 ELSE IF sum > 10000 THEN 10000 ELSE sum

C25_Witness ==
    /\ last.op = "fingerprint_request"
    /\ last.ret.timing_regularity = 80
    /\ last.ret.path_enumeration = 30
    /\ last.ret.header_anomaly > 0
    /\ last.ret.prompt_leakage = 50
    /\ last.ret.mcp_behavior = 70

(***************************************************************************)
(* server.py: the routes of the application and the catch-all handler.     *)
(***************************************************************************)
DiscoveryPaths ==
    {<<".well-known", "ai-plugin.json">>, <<".well-known", "mcp.json">>,
     <<"robots.txt">>, <<"sitemap.xml">>, <<"openapi.json">>}

\* traps/api.py _docs_path, over the frameworks generate_persona draws from
_docs_path(p) ==
    LET fw == p.framework_fingerprint
    IN  IF fw \in {"express/4.18.2", "nestjs/10.3.0"} THEN <<"api-docs">>
        ELSE IF fw \in {"django/4.2", "flask/3.0.0", "fastapi/0.109.0"} THEN <<"docs">>
        ELSE IF fw = "rails/7.1" THEN <<"api", "docs">>
        ELSE IF fw = "spring-boot/3.2.0" THEN <<"swagger-ui.html">>
        ELSE IF fw = "laravel/10.40" THEN <<"api", "documentation">>
        ELSE <<"docs">>

\* traps/api.py create_api_router: the first route of the router that
\* matches the method and the path
RestRoute(p, method, path) ==
    LET prefix == p.endpoint_prefix
        under == StartsWith(path, prefix)
        rest == Len(path) - Len(prefix)
    IN  IF method = "POST" /\ path = prefix \o <<"auth", "token">> THEN "auth_token"
        ELSE IF method = "GET" /\ under /\ rest = 1 THEN "list_resources"
        ELSE IF method = "GET" /\ under /\ rest = 2 THEN "get_resource"
        ELSE IF method = "GET" /\ under /\ rest = 3 THEN "get_sub_resource"
        ELSE IF method = "POST" /\ under /\ rest = 1 THEN "create_resource"
        ELSE IF method = "GET" /\ path = _docs_path(p) THEN "swagger_docs"
        ELSE "None"

CatchAllMethods == {"GET", "POST", "PUT", "DELETE", "PATCH", "OPTIONS"}

\* the route that serves a request: /health (_create_app), then the routers
\* in the order _mount_trap_routers includes them, then the catch-all
Route(cfg, p, method, path) ==
    IF method = "GET" /\ path = <<"health">> THEN "health_check"
    ELSE IF cfg.ai_discovery /\ method = "GET" /\ path \in DiscoveryPaths THEN "discovery"
    ELSE IF cfg.rest_api /\ RestRoute(p, method, path) # "None"
    THEN RestRoute(p, method, path)
    ELSE IF cfg.mcp_server /\ method = "POST" /\ path = <<"mcp">> THEN "mcp_endpoint"
    ELSE IF method \in CatchAllMethods THEN "catch_all"
    ELSE "None"

\* the status of the response of a trap route: none of them touches storage
TrapStatus(p, route, req) ==
    CASE route = "list_resources" -> IF req.page >= 1 THEN 200 ELSE 422
      [] route = "create_resource" -> 201
      [] route = "mcp_endpoint" -> mcp_endpoint(p, req.body).status
      [] route = "None" -> 405
      [] OTHER -> 200

\* models.py AuthScheme
AuthSchemes == {"bearer", "api_key_header", "api_key_query", "basic", "oauth2"}

\* traps/api.py _generate_auth_token: the token values of the reply, each
\* the sequence of the parts its f-string joins; "canary" stands for
\* _generate_canary(persona, ...)
_generate_auth_token(p) ==
    CASE p.auth_scheme = "oauth2" ->
            {<<"eyJhbGciOiJSUzI1NiIsInR5cCI6IkpXVCJ9.", "canary">>, <<"rt_", "canary">>}
      [] p.auth_scheme = "bearer" -> {<<"sk-sundew-", "FAKE", "-", "canary">>}
      [] p.auth_scheme \in {"api_key_header", "api_key_query"} -> {<<"ak_", "canary">>}
      [] OTHER -> {<<"sess_", "canary">>}

\* _handle_request: body_json
BodyJson(req) ==
    IF req.body # JAbsent /\ req.content_type = "application/json" /\ req.body # JMalformed
    THEN req.body
    ELSE JNull

\* RequestEvent(body_json=...): dict[str, Any] | None
ValidBodyJson(j) == j.t \in {"obj", "null"}

Curl ==
    [user_agent |-> "bot", referer |-> FALSE, accept |-> "*/*",
     accept_language |-> FALSE, accept_encoding |-> FALSE, ai_header |-> FALSE]
Browser ==
    [user_agent |-> "browser", referer |-> TRUE, accept |-> "other",
     accept_language |-> TRUE, accept_encoding |-> TRUE, ai_header |-> FALSE]

Sent(method, path, content_type, body, matches, page, headers) ==
    [method |-> method, path |-> path, content_type |-> content_type, body |-> body,
     matches |-> matches, page |-> page, headers |-> headers]

JObj == [t |-> "obj", id |-> JNum, method |-> JStr(<<"initialize">>), params |-> JAbsent]

\* what a client sends
Requests ==
    {Sent("GET", <<"robots.txt">>, "None", JAbsent, 0, 1, Curl),
     Sent("GET", <<"health">>, "None", JAbsent, 0, 1, Curl),
     Sent("GET", <<"api", "v1", "users">>, "None", JAbsent, 0, 0, Curl),
     Sent("GET", <<"api", "v1", "users", "42">>, "None", JAbsent, 0, 1, Browser),
     Sent("POST", <<"api", "v1", "users">>, "application/json", JObj, 1, 1, Curl),
     Sent("POST", <<"mcp">>, "application/json", JObj, 0, 1, Curl),
     Sent("GET", <<"nope">>, "None", JAbsent, 0, 1, Browser),
     Sent("POST", <<"nope">>, "application/json", JArr, 0, 1, Curl)}

\* the storage call whose write to the database fails, or the append to the
\* event log failing with OSError
StorageFaults ==
    {"none", "get_or_create_session", "save_event", "update_session_with_event", "log_event"}

\* the state after _startup: the engine initialized from nothing (no cache
\* file, no pack, provider none), the storage opened on an empty database
ServerInit ==
    /\ persona = ThePersona
    /\ traps \in {[ai_discovery |-> TRUE, rest_api |-> b, mcp_server |-> TRUE] :
                    b \in BOOLEAN}
    /\ reqs = [r \in Reqs |-> NoRequest]
    /\ engPc = "ready"
    /\ templates = _generate_minimal_defaults(<<>>, ThePersona)
    /\ cacheFile = _save_to_cache(templates)
    /\ packFiles = [own |-> [kind |-> "missing"], saas |-> [kind |-> "missing"]]
    /\ engRun = [provider |-> "none"]
    /\ engResp = 0
    /\ engServed = NothingServed
    /\ McpIdle
    /\ ApiIdle
    /\ DbInit

InFlight == {r \in Reqs : reqs[r].pc \in {"received", "latency"}}
NumHandled == Cardinality({r \in Reqs : reqs[r].pc \in {"latency", "done", "disconnected"}})

\* a request reaches its route (the requests are named in the order of
\* their arrival, and so are the addresses)
Arrive(r, ip, sent) ==
    /\ reqs[r].pc = "idle"
    /\ r = "r2" => reqs["r1"].pc # "idle"
    /\ r = "r1" => ip = "203.0.113.5"
    /\ reqs' = [reqs EXCEPT ![r] =
          [pc |-> "received", ip |-> ip, sent |-> sent,
           route |-> Route(traps, persona, sent.method, sent.path)]]
    /\ UNCHANGED <<dbVars, traps>>

\* a trap route (or /health) answers
TrapRespond(r) ==
    /\ reqs[r].pc = "received"
    /\ reqs[r].route # "catch_all"
    /\ reqs' = [reqs EXCEPT ![r] =
          [pc |-> "done", ip |-> @.ip, sent |-> @.sent, route |-> @.route,
           raised |-> IF TrapStatus(persona, @.route, @.sent) = 500
                      THEN "Exception" ELSE "None",
           status |-> TrapStatus(persona, @.route, @.sent),
           tokens |-> IF @.route = "auth_token" THEN _generate_auth_token(persona) ELSE {},
           event_id |-> NoId, session_id |-> NoId]]
    /\ UNCHANGED <<dbVars, traps>>

\* the response of a handler that raised: Starlette's 500
HandlerRaised(r, exc, event_id) ==
    [pc |-> "done", ip |-> reqs[r].ip, sent |-> reqs[r].sent, route |-> reqs[r].route,
     raised |-> exc, status |-> 500, event_id |-> event_id, session_id |-> NoId]

\* _handle_request from the end of `await request.body()` to the sleep: no
\* await in between.  elapsed is the time between the two now() calls
\* (RequestEvent's timestamp, then get_or_create_session); fault is the
\* storage call whose write fails, if any.
HandleRequest(r, elapsed, fault) ==
    /\ reqs[r].pc = "received"
    /\ reqs[r].route = "catch_all"
    /\ LET req == reqs[r]
           event == [NewEvent(nextId, req.ip, req.sent.method, req.sent.path, "None", clock)
                       EXCEPT !.body_json = BodyJson(req.sent)]
       IN  IF ~ValidBodyJson(BodyJson(req.sent))
           THEN /\ fault = "none" /\ elapsed = 0
                /\ reqs' = [reqs EXCEPT ![r] = HandlerRaised(r, "ValidationError", NoId)]
                /\ UNCHANGED dbVars
           ELSE \E o \in get_or_create_session(sessions, req.ip, clock + elapsed, nextId + 1) :
                LET linked == [event EXCEPT !.session_id = o.session.id]
                    updated == update_session_with_event(o.session, linked)
                IN  /\ fault = "get_or_create_session" => o.created
                    /\ sessions' =
                          CASE fault = "get_or_create_session" -> sessions
                            [] fault \in {"save_event", "update_session_with_event"} -> o.tbl
                            [] OTHER -> save_session(o.tbl, updated)
                    /\ events' =
                          IF fault \in {"get_or_create_session", "save_event"}
                          THEN events
                          ELSE save_event(events, linked)
                    /\ evlog' =
                          IF fault \in {"get_or_create_session", "save_event"}
                          THEN evlog
                          ELSE _log_event(LogFile, evlog, linked, fault = "log_event")
                    /\ reqs' = [reqs EXCEPT ![r] =
                          IF Propagates(fault)
                          THEN HandlerRaised(r, "sqlite3.Error", event.id)
                          ELSE [pc |-> "latency", ip |-> req.ip, sent |-> req.sent,
                                route |-> req.route, raised |-> "None",
                                status |-> _match_template(FALSE, templates,
                                                           req.sent.path, req.sent.method),
                                body |-> ResponseBody(persona, templates, req.sent.path,
                                                      req.sent.method),
                                event_id |-> event.id, session_id |-> o.session.id,
                                timestamp |-> event.timestamp,
                                lookup_at |-> clock + elapsed,
                                seq |-> NumHandled + 1,
                                overlaps |-> InFlight \ {r},
                                count_before |-> o.session.request_count]]
                    /\ clock' = clock + elapsed
                    /\ nextId' = nextId + 2
                    /\ UNCHANGED nticks
    /\ UNCHANGED traps

\* the sleep is over: the response is returned
Respond(r) ==
    /\ reqs[r].pc = "latency"
    /\ reqs' = [reqs EXCEPT ![r].pc = "done"]
    /\ UNCHANGED <<dbVars, traps>>

\* the client goes away during the sleep.  _handle_request has no handler
\* for it: the sleep runs to its end and the response is dropped, or the
\* task is cancelled at the await; either way no line of the handler runs
\* after the disconnect
Disconnect(r) ==
    /\ reqs[r].pc = "latency"
    /\ reqs' = [reqs EXCEPT ![r].pc = "disconnected"]
    /\ UNCHANGED <<dbVars, traps>>

\* time passes: up to the idle threshold, or beyond it
ServerAdvances == {SESSION_TIMEOUT - 1, SESSION_TIMEOUT}

ServerTick(d) ==
    /\ nticks < MaxServerTicks
    /\ Tick(d)
    /\ UNCHANGED srvVars

ServerFrame == UNCHANGED <<apiVars, analyst, persona, mcpVars, engVars>>

Next ==
    \/ \E r \in Reqs, ip \in IPs, sent \in Requests : Arrive(r, ip, sent) /\ ServerFrame
    \/ \E r \in Reqs : TrapRespond(r) /\ ServerFrame
    \/ \E r \in Reqs, elapsed \in {0, 1}, fault \in StorageFaults :
          HandleRequest(r, elapsed, fault) /\ ServerFrame
    \/ \E r \in Reqs : Respond(r) /\ ServerFrame
    \/ \E r \in Reqs : Disconnect(r) /\ ServerFrame
    \/ \E d \in ServerAdvances : ServerTick(d) /\ ServerFrame

Spec == ServerInit /\ [][Next]_vars

(***************************************************************************)
(* The server under every persona generate_persona can draw.               *)
(***************************************************************************)
\* persona/generator.py ENDPOINT_PREFIXES
ENDPOINT_PREFIXES ==
    {<<"api", "v1">>, <<"api", "v2">>, <<"api", "v3">>, <<"v1">>, <<"v2">>,
     <<"rest", "v1">>, <<"api">>, <<"service", "api">>}

\* persona/generator.py FRAMEWORKS
FRAMEWORKS ==
    {"express/4.18.2", "django/4.2", "rails/7.1", "spring-boot/3.2.0", "fastapi/0.109.0",
     "flask/3.0.0", "nestjs/10.3.0", "gin/1.9.1", "laravel/10.40", "actix-web/4.4"}

\* generate_persona: the endpoint prefix and the framework are drawn
\* independently
GeneratedPersonas ==
    {[ThePersona EXCEPT !.endpoint_prefix = pf, !.framework_fingerprint = fw,
                        !.auth_scheme = a] :
        pf \in ENDPOINT_PREFIXES, fw \in FRAMEWORKS, a \in AuthSchemes}

\* the documentation paths of _docs_path
DocsPaths ==
    {<<"docs">>, <<"api-docs">>, <<"swagger-ui.html">>, <<"api", "documentation">>,
     <<"api", "docs">>}

\* what a client sends to a generated persona
RouterRequests(p) ==
    {Sent("GET", path, "None", JAbsent, 0, 1, Curl) : path \in DocsPaths}
        \cup {Sent("GET", <<"nope", "{{id}}">>, "None", JAbsent, 0, 1, Curl),
               Sent("POST", p.endpoint_prefix \o <<"auth", "token">>, "application/json",
                    JBody, 0, 1, Curl)}

\* the state after _startup under a generated persona
RouterInit ==
    /\ persona \in GeneratedPersonas
    /\ traps \in {[ai_discovery |-> TRUE, rest_api |-> b, mcp_server |-> TRUE] :
                    b \in BOOLEAN}
    /\ reqs = [r \in Reqs |-> NoRequest]
    /\ engPc = "ready"
    /\ templates = _generate_minimal_defaults(<<>>, persona)
    /\ cacheFile = _save_to_cache(templates)
    /\ packFiles = [own |-> [kind |-> "missing"], saas |-> [kind |-> "missing"]]
    /\ engRun = [provider |-> "none"]
    /\ engResp = 0
    /\ engServed = NothingServed
    /\ McpIdle
    /\ ApiIdle
    /\ DbInit

RouterNext ==
    \/ \E sent \in RouterRequests(persona) : Arrive("r1", "203.0.113.5", sent) /\ ServerFrame
    \/ TrapRespond("r1") /\ ServerFrame
    \/ HandleRequest("r1", 0, "none") /\ ServerFrame
    \/ Respond("r1") /\ ServerFrame

SpecRouter == RouterInit /\ [][RouterNext]_vars

\* C21: with the REST trap mounted, a GET on the persona's documentation
\* path is answered by the route that serves the OpenAPI specification.
C21_DocsPathServesOpenApi ==
    (/\ traps.rest_api
     /\ reqs["r1"].pc = "done"
     /\ reqs["r1"].sent.method = "GET"
     /\ reqs["r1"].sent.path = _docs_path(persona))
    => reqs["r1"].route = "swagger_docs"

(***************************************************************************)
(* Properties of the server.                                               *)
(***************************************************************************)
Answered(r) == reqs[r].pc = "done"

\* the handler of r ran the whole storage block and raised nothing
Recorded(r) == reqs[r].pc \in {"latency", "done"} /\ reqs[r].route = "catch_all"
               /\ reqs[r].raised = "None"

StoredEvent(r) == {e \in AllEvents(events) : e.id = reqs[r].event_id}
StoredSession(r) == {t \in AllSessions(sessions) : t.id = reqs[r].session_id}

\* C1: every request the server has answered (by a trap route or by the
\* catch-all, the handler having raised nothing) has a stored event whose id
\* is in the request_ids of the stored session its session_id names.
C1_EventSavedBeforeResponse ==
    \A r \in Reqs :
        (Answered(r) /\ reqs[r].raised = "None") =>
            \E e \in StoredEvent(r) :
                \E t \in AllSessions(sessions) : t.id = e.session_id /\ InSeq(e.id, t.request_ids)

\* C2: two requests of one source IP whose handlers are in flight together,
\* the later look-up falling inside the idle window of the earlier event, are
\* put in the same session: it is the only session of that IP holding either
\* event id, it holds each of them once, its request_count equals the length
\* of request_ids, and the later handler found the count at least one above
\* what the earlier one found (no update is lost).
C2_Case(r1, r2) ==
    /\ r1 # r2
    /\ Recorded(r1) /\ Recorded(r2)
    /\ reqs[r1].ip = reqs[r2].ip
    /\ reqs[r1].seq < reqs[r2].seq
    /\ r1 \in reqs[r2].overlaps \/ r2 \in reqs[r1].overlaps
    /\ reqs[r2].lookup_at - reqs[r1].timestamp < SESSION_TIMEOUT

Occurrences(x, q) == Cardinality({i \in 1..Len(q) : q[i] = x})

C4_SessionSpansItsEvents ==
    \A t \in AllSessions(sessions) : \A e \in AllEvents(events) :
        InSeq(e.id, t.request_ids) =>
            (t.first_seen <= e.timestamp /\ e.timestamp <= t.last_seen)

\* C5: after a request has been handled, the stored event and its stored
\* session carry the scores the scorer computes for the request, and the
\* stored classification of each is classify(composite).
C5_ScoresAndClassificationStored ==
    \A r \in Reqs :
        Recorded(r) =>
            LET scores == fingerprint_request(reqs[r].sent.headers, reqs[r].sent.matches)
            IN  /\ \A e \in StoredEvent(r) :
                      /\ e.fingerprint_scores.header_anomaly = scores.header_anomaly
                      /\ e.fingerprint_scores.composite = scores.composite
                      /\ e.classification = classify(e.fingerprint_scores.composite)
                /\ \A t \in StoredSession(r) :
                      t.classification = classify(t.fingerprint_scores.composite)

\* C8: while storage works, no request to a REST trap route or to the
\* catch-all is answered with a 5xx status.
RestRoutes ==
    {"auth_token", "list_resources", "get_resource", "get_sub_resource",
     "create_resource", "swagger_docs"}

C8_No5xxForAttackerInput ==
    \A r \in Reqs :
        (reqs[r].pc \in {"latency", "done"}
           /\ reqs[r].route \in RestRoutes \cup {"catch_all"}
           /\ reqs[r].raised # "sqlite3.Error")
        => reqs[r].status < 500

\* C9: a request during whose handling a storage write failed is answered
\* with status 503.
C9_WriteFailureIs503 ==
    \A r \in Reqs :
        (Answered(r) /\ reqs[r].raised = "sqlite3.Error") => reqs[r].status = 503

\* the event of r is in the database and no line of the event log holds it:
\* the append to the log failed
LogAppendFailed(r) ==
    /\ reqs[r].pc \in {"latency", "done"}
    /\ reqs[r].route = "catch_all"
    /\ reqs[r].event_id \in DOMAIN events
    /\ \A i \in 1..Len(evlog) : evlog[i].of.id # reqs[r].event_id

C18_DisconnectPersistsTruncatedEvent ==
    \A r \in Reqs :
        reqs[r].pc = "disconnected" =>
            \E e \in StoredEvent(r) :
                e.response_status = 0 /\ e.notes = "client_disconnected"

\* C22: no body the catch-all serves, rendered from a cached template or an
\* error body, contains the text {{.
C22_NoBracesInBodies ==
    \A r \in Reqs : Recorded(r) => reqs[r].body = {}

\* C23: under every auth scheme, each token value the auth endpoint returns
\* contains a canary and the literal marker FAKE.
C23_TokensCarryCanaryAndFake ==
    \A r \in Reqs :
        (Answered(r) /\ reqs[r].route = "auth_token") =>
            /\ reqs[r].tokens # {}
            /\ \A tok \in reqs[r].tokens : InSeq("canary", tok) /\ InSeq("FAKE", tok)

\* C27: after any sequence of handled requests, a storage write failing
\* part-way through a handler included, every stored event that has a
\* session_id refers to a stored session of the same source_ip whose
\* request_ids contains the event's id, and every id in a stored session's
\* request_ids is the id of a stored event whose session_id is that session.
C27_EventsAndSessionsAgree ==
    /\ \A e \in AllEvents(events) :
          e.session_id # NoId =>
              \E t \in AllSessions(sessions) :
                  /\ t.id = e.session_id
                  /\ t.source_ip = e.source_ip
                  /\ InSeq(e.id, t.request_ids)
    /\ \A t \in AllSessions(sessions) :
          \A i \in 1..Len(t.request_ids) :
              \E e \in AllEvents(events) :
                  e.id = t.request_ids[i] /\ e.session_id = t.id

====
